---- MODULE Spec2Model ----
(***************************************************************************)
(* PC speaker emulation of src/src/hardware/pcspeaker.cpp: the PIT state   *)
(* machine (ForwardPIT, PCSPEAKER_SetPITControl, PCSPEAKER_SetCounter,     *)
(* PCSPEAKER_SetType), the edge log (AddDelayEntry) and the render         *)
(* callback (PCSPEAKER_CallBack, add_impulse).                             *)
(* The VMware mouse interface of the same file (PortReadVMware and the     *)
(* MOUSEVMWARE_Notify functions) is modelled next to it.                   *)
(*                                                                         *)
(* Time is exact and discrete.  One model time unit is half a PIT count,   *)
(* so that the half period of an odd count is a whole number; the source's *)
(* float positions in [0.0, 1.0] of a millisecond tick are the integers    *)
(* 0 .. TickLen.  Float rounding is not modelled.                          *)
(***************************************************************************)
EXTENDS Integers, Sequences, FiniteSets, TLC

\* ------------------------------------------------------------ scale
\* Model time units in one emulated millisecond (position 1.0f).
TickLen == 4
\* Largest counter value written by the guest.
MaxCount == 3
\* Calls (control calls and renders) in one run.
MaxCalls == 3
\* Calls in one of the longer runs, and the counts written in them.
MaxLongCalls == 8
MaxLongCount == 2
\* Calls in a run of port writes in bursts.
MaxBurstCalls == 16
MaxGateCalls == 7
MaxWaveCalls == 5
\* Notifications and port reads in a run of the VMware mouse interface.
MaxMouseCalls == 5
\* Edge positions tried on the impulse synthesizer alone: PosDen-ths of a tick.
PosDen == 64
\* Sample rates tried on it: MinRate + k * RateStep for k in 0 .. MaxRateSteps,
\* and the rates in common use.
RateStep == 500
MaxRateSteps == 8
\* Largest host coordinate of a mouse move.
MaxPos == 3
\* Longest window, in time units, over which the observer below records edges.
MaxSince == 3 * TickLen

\* ------------------------------------------------------------ constants
\* pcspeaker.cpp:41, scaled down (1024 in the source).
SPKR_ENTRIES == 4
\* pcspeaker.cpp:43-44
SPKR_POSITIVE_LEVEL == 20000
SPKR_NEGATIVE_LEVEL == -SPKR_POSITIVE_LEVEL
\* pcspeaker.cpp:52, duration of one PIT count in model time units.
ms_per_pit_tick == 2
\* pcspeaker.cpp:624, 2 * PIT_TICK_RATE / rate at the model's scale.
minimum_counter == 2
\* pcspeaker.cpp:616, the power-on count (1320 in the source, about 1.1 ms).
InitialCounter == 2

\* pcspeaker.cpp:46-47, scaled down (100 taps and 32 phases in the source).
SPKR_FILTER_QUALITY == 2
SPKR_OVERSAMPLING == 2
SPKR_FILTER_WIDTH == SPKR_FILTER_QUALITY * SPKR_OVERSAMPLING
\* pcspeaker.cpp:609, rate / 1000: output samples in one millisecond tick.
rate_per_ms == 2
\* pcspeaker.cpp:50, SPKR_HIGHPASS = 0.999f as a fraction of HighpassDen.
HighpassNum == 999
HighpassDen == 1000
\* pcspeaker.cpp:526, the bounds of a signed 16-bit sample.
MAX_AUDIO == 32767
MIN_AUDIO == -MAX_AUDIO - 1
\* pcspeaker.cpp:607, the lowest sample rate the constructor accepts.
MinRate == 8000
\* pcspeaker.cpp:587 and 609, samples per second over samples per millisecond.
RatePerMsDiv == 1000
\* init_interpolation: the table of SPKR_FILTER_WIDTH kernel samples.  The
\* float kernel is replaced by weights that sum to one per phase (a unit
\* step of the edge's level); sample 0 is impulse(0) = 0 as in the source.
sampled_impulse == <<0, 1, 1, 0>>
\* init_interpolation: output_buffer_length
BufLen == SPKR_FILTER_QUALITY + rate_per_ms + 1

Counts == 0 .. MaxCount
\* Requested sample counts: none, one tick's worth, one more than the buffer holds.
RenderLens == {0, rate_per_ms, BufLen + 1}
\* 0..4 are handled by SetCounter, 5 stands for every unhandled mode value.
Modes == 0 .. 5
Positions == 0 .. TickLen
Rates ==
    {MinRate + k * RateStep : k \in 0 .. MaxRateSteps}
        \cup {11025, 22050, 32000, 44100, 48000, 49716}
LongCounts == 1 .. MaxLongCount
\* Start of the tick and a position in its last quarter.
LongPositions == {0, TickLen - 1}

VARIABLES
    spkr,    \* the static struct spkr, with the function-static variables
    chan,    \* the samples handed to the mixer channel by the last render
    calls,   \* number of calls made so far
    call,    \* observer: the last call and its arguments
    pre,     \* observer: spkr as it was before the last call
    win,     \* observer: the window since the last reprogramming call
    imp,     \* the impulse synthesizer on its own: one edge at one sample rate
    mouse    \* the VMware mouse interface: its statics and the last call

vars == <<spkr, chan, calls, call, pre, win, imp, mouse>>

\* ------------------------------------------------------------ variants
\* Deliberately wrong variants of single operators, used to show that the
\* properties below tell the program from a near miss.
\* AddDelayEntry that stores without looking at the capacity.
AddDelayEntry_m(s, index, new_output_level) ==
    IF new_output_level = s.previous_output_level THEN s
    ELSE LET e == [index |-> index, output_level |-> new_output_level]
         IN [s EXCEPT !.previous_output_level = new_output_level,
                      !.emitted = Append(@, e),
                      !.entries = Append(@, e)]

\* AddDelayEntry that forgets the level of an edge it has no room for.
AddDelayEntry_d(s, index, new_output_level) ==
    IF new_output_level = s.previous_output_level THEN s
    ELSE IF Len(s.entries) = SPKR_ENTRIES THEN s
    ELSE LET e == [index |-> index, output_level |-> new_output_level]
         IN [s EXCEPT !.previous_output_level = new_output_level,
                      !.emitted = Append(@, e),
                      !.entries = Append(@, e)]

\* A boundary is reached only when the interval goes past it.
Reaches_m(pit_index, passed, boundary) == pit_index + passed > boundary

\* An unsupported control mode that still forces the output high.
PITControlOther_m(f, mode, newindex) ==
    [f EXCEPT !.pit_output_level = SPKR_POSITIVE_LEVEL]

\* The dummy mode entered with the output low.
EnterDummy_m(f, newindex) ==
    [f EXCEPT !.pit_output_level = SPKR_NEGATIVE_LEVEL, !.pit_mode = 6]

\* An unhandled counter mode that still reaches the final mode assignment.
SetCounterOther_m(f, cntr, mode, newindex) == [f EXCEPT !.pit_mode = mode]

\* The buffer length without the slot that compensates the rounding.
output_buffer_length_m(rate) == SPKR_FILTER_QUALITY + rate \div RatePerMsDiv

\* A boundary of the square wave that does not load the staged count.
LoadNewCount_m(s) == s

\* A shift that is one sample too long.
Shift_m(buf, len) ==
    [j \in 1 .. Len(buf) |-> IF j + len + 1 <= Len(buf) THEN buf[j + len + 1] ELSE 0]

\* ------------------------------------------------------------ edge log
\* The stored edges of the whole run, as far as their order matters: the
\* level of the first edge ever stored and of the last one (0 while none was
\* stored), and whether an edge was stored right after one of its own level.
Store(h, level) ==
    [first |-> IF h.first = 0 THEN level ELSE h.first,
     last |-> level,
     repeated |-> h.repeated \/ h.last = level]

\* AddDelayEntry: deduplicate against the static previous level, then store
\* unless the log is full.  emitted records every edge that passed the
\* deduplication during the current call (observer field, empty at rest);
\* stored follows the edges that went into the log (observer field).
AddDelayEntry(s, index, new_output_level) ==
    IF new_output_level = s.previous_output_level THEN s
    ELSE LET e == [index |-> index, output_level |-> new_output_level]
             t == [s EXCEPT !.previous_output_level = new_output_level,
                            !.emitted = Append(@, e)]
         IN IF Len(s.entries) = SPKR_ENTRIES THEN t
            ELSE [t EXCEPT !.entries = Append(@, e),
                           !.stored = Store(@, new_output_level)]

AddPITOutput(s, index) ==
    IF s.pit_output_enabled THEN AddDelayEntry(s, index, s.pit_output_level)
    ELSE s

\* ForwardPIT cases 2 and 3: (spkr.pit_index + passed) >= boundary; an elapsed
\* interval that ends exactly on the boundary reaches it.
Reaches(pit_index, passed, boundary) == pit_index + passed >= boundary

\* What the while loops of cases 2 and 3 read and write apart from the output
\* level and the log: a loop that returns to values it has already had
\* never exits.
LoopKey(s, passed, delay_base) ==
    <<s.pit_index, s.pit_half, s.pit_max, s.pit_new_half, s.pit_new_max,
      passed, delay_base>>

RECURSIVE Loop2(_, _, _, _)
\* ForwardPIT case 2: while (passed > 0) { ... }
Loop2(s, passed, delay_base, seen) ==
    IF ~(passed > 0) THEN s
    ELSE IF LoopKey(s, passed, delay_base) \in seen THEN [s EXCEPT !.hung = TRUE]
    ELSE LET seen2 == seen \cup {LoopKey(s, passed, delay_base)} IN
      IF s.pit_index >= s.pit_half THEN
        IF Reaches(s.pit_index, passed, s.pit_max) THEN
          LET delay == s.pit_max - s.pit_index
              s1 == AddPITOutput([s EXCEPT !.pit_output_level = SPKR_NEGATIVE_LEVEL],
                                 delay_base + delay)
          IN Loop2([s1 EXCEPT !.pit_index = 0], passed - delay, delay_base + delay, seen2)
        ELSE [s EXCEPT !.pit_index = @ + passed]
      ELSE
        IF Reaches(s.pit_index, passed, s.pit_half) THEN
          LET delay == s.pit_half - s.pit_index
              s1 == AddPITOutput([s EXCEPT !.pit_output_level = SPKR_POSITIVE_LEVEL],
                                 delay_base + delay)
          IN Loop2([s1 EXCEPT !.pit_index = s.pit_half], passed - delay,
                   delay_base + delay, seen2)
        ELSE [s EXCEPT !.pit_index = @ + passed]

\* ForwardPIT case 3, "Load the new count", at either boundary.
LoadNewCount(s) == [s EXCEPT !.pit_half = s.pit_new_half, !.pit_max = s.pit_new_max]

RECURSIVE Loop3(_, _, _, _)
\* ForwardPIT case 3: while (passed > 0) { ... }
Loop3(s, passed, delay_base, seen) ==
    IF ~(passed > 0) THEN s
    ELSE IF LoopKey(s, passed, delay_base) \in seen THEN [s EXCEPT !.hung = TRUE]
    ELSE LET seen2 == seen \cup {LoopKey(s, passed, delay_base)} IN
      IF s.pit_index >= s.pit_half THEN
        IF Reaches(s.pit_index, passed, s.pit_max) THEN
          LET delay == s.pit_max - s.pit_index
              s1 == AddPITOutput([s EXCEPT !.pit_output_level = SPKR_POSITIVE_LEVEL],
                                 delay_base + delay)
          IN Loop3(LoadNewCount([s1 EXCEPT !.pit_index = 0]),
                   passed - delay, delay_base + delay, seen2)
        ELSE [s EXCEPT !.pit_index = @ + passed]
      ELSE
        IF Reaches(s.pit_index, passed, s.pit_half) THEN
          LET delay == s.pit_half - s.pit_index
              s1 == AddPITOutput([s EXCEPT !.pit_output_level = SPKR_NEGATIVE_LEVEL],
                                 delay_base + delay)
          IN Loop3(LoadNewCount([s1 EXCEPT !.pit_index = s.pit_half]),
                   passed - delay, delay_base + delay, seen2)
        ELSE [s EXCEPT !.pit_index = @ + passed]

\* ForwardPIT cases 0 and 1 share the one-shot advance; mode 1 also marks
\* itself waiting for the next trigger when the pulse ends.
OneShot(s, passed, delay_base, mode1) ==
    IF s.pit_index >= s.pit_max THEN s
    ELSE LET idx == s.pit_index + passed IN
      IF idx >= s.pit_max THEN
        LET delay == delay_base + s.pit_max - idx + passed
            s1 == AddPITOutput([s EXCEPT !.pit_index = idx,
                                         !.pit_output_level = SPKR_POSITIVE_LEVEL],
                               delay)
        IN IF mode1 THEN [s1 EXCEPT !.pit_mode1_waiting_for_trigger = TRUE] ELSE s1
      ELSE [s EXCEPT !.pit_index = idx]

\* ForwardPIT case 4
Strobe(s, passed, delay_base) ==
    IF s.pit_index < s.pit_max THEN
      IF s.pit_index + passed >= s.pit_max THEN
        LET delay == s.pit_max - s.pit_index
            s1 == AddPITOutput([s EXCEPT !.pit_output_level = SPKR_NEGATIVE_LEVEL],
                               delay_base + delay)
        IN [s1 EXCEPT !.pit_index = s.pit_max]
      ELSE [s EXCEPT !.pit_index = @ + passed]
    ELSE s

ForwardPIT(s, newindex) ==
    LET passed == newindex - s.last_index
        delay_base == s.last_index
        s0 == [s EXCEPT !.last_index = newindex]
    IN CASE s.pit_mode = 6 -> s0
         [] s.pit_mode = 0 -> OneShot(s0, passed, delay_base, FALSE)
         [] s.pit_mode = 1 ->
              IF s.pit_mode1_waiting_for_counter \/ s.pit_mode1_waiting_for_trigger
              THEN s0
              ELSE OneShot(s0, passed, delay_base, TRUE)
         [] s.pit_mode = 2 -> Loop2(s0, passed, delay_base, {})
         [] s.pit_mode = 3 ->
              IF ~s.pit_mode3_counting THEN s0
              ELSE Loop3(s0, passed, delay_base, {})
         [] s.pit_mode = 4 -> Strobe(s0, passed, delay_base)
         [] OTHER -> s0

\* ------------------------------------------------------------ control calls
\* PCSPEAKER_SetPITControl, default: return
PITControlOther(f, mode, newindex) == f

\* The part of PCSPEAKER_SetPITControl after ForwardPIT.
PITControlBody(f, mode, newindex) ==
    CASE mode = 1 ->
           AddPITOutput([f EXCEPT !.pit_mode = 1,
                                  !.pit_mode1_waiting_for_counter = TRUE,
                                  !.pit_mode1_waiting_for_trigger = FALSE,
                                  !.pit_output_level = SPKR_POSITIVE_LEVEL],
                        newindex)
      [] mode = 3 ->
           AddPITOutput([f EXCEPT !.pit_mode = 3,
                                  !.pit_mode3_counting = FALSE,
                                  !.pit_output_level = SPKR_POSITIVE_LEVEL],
                        newindex)
      [] OTHER -> PITControlOther(f, mode, newindex)

PCSPEAKER_SetPITControl(s, mode, newindex) ==
    LET f == ForwardPIT(s, newindex) IN
    IF f.hung THEN f ELSE PITControlBody(f, mode, newindex)

\* case 3 of PCSPEAKER_SetCounter, cntr < spkr.minimum_counter: the dummy
\* mode with constant high output.
EnterDummy(f, newindex) ==
    AddPITOutput([f EXCEPT !.pit_output_level = SPKR_POSITIVE_LEVEL,
                           !.pit_mode = 6],
                 newindex)

\* Variant: a square wave that starts counting from the level it finds.
SetCounter3_m(f, cntr, duration_of_count_ms, newindex) ==
    IF cntr < minimum_counter THEN EnterDummy(f, newindex)
    ELSE
      LET f1 == [f EXCEPT !.pit_new_max = duration_of_count_ms,
                          !.pit_new_half = duration_of_count_ms \div 2]
          f2 == IF ~f1.pit_mode3_counting THEN
                  LET f3 == [f1 EXCEPT !.pit_index = 0,
                                       !.pit_max = f1.pit_new_max,
                                       !.pit_half = f1.pit_new_half]
                  IN IF f3.pit_clock_gate_enabled THEN
                       AddPITOutput([f3 EXCEPT !.pit_mode3_counting = TRUE],
                                    newindex)
                     ELSE f3
                ELSE f1
      IN [f2 EXCEPT !.pit_mode = 3]

\* case 3 of PCSPEAKER_SetCounter
SetCounter3(f, cntr, duration_of_count_ms, newindex) ==
    IF cntr < minimum_counter THEN EnterDummy(f, newindex)
    ELSE
      LET f1 == [f EXCEPT !.pit_new_max = duration_of_count_ms,
                          !.pit_new_half = duration_of_count_ms \div 2]
          f2 == IF ~f1.pit_mode3_counting THEN
                  LET f3 == [f1 EXCEPT !.pit_index = 0,
                                       !.pit_max = f1.pit_new_max,
                                       !.pit_half = f1.pit_new_half]
                  IN IF f3.pit_clock_gate_enabled THEN
                       AddPITOutput([f3 EXCEPT !.pit_mode3_counting = TRUE,
                                               !.pit_output_level = SPKR_POSITIVE_LEVEL],
                                    newindex)
                     ELSE f3
                ELSE f1
      IN [f2 EXCEPT !.pit_mode = 3]

\* PCSPEAKER_SetCounter, default: return
SetCounterOther(f, cntr, mode, newindex) == f

\* Variant: a mode-1 counter load that takes effect at once.
SetCounter1_m(f, duration_of_count_ms) ==
    [f EXCEPT !.pit_mode1_pending_max = duration_of_count_ms,
              !.pit_max = duration_of_count_ms,
              !.pit_mode1_waiting_for_trigger =
                   IF f.pit_mode1_waiting_for_counter THEN TRUE ELSE @,
              !.pit_mode1_waiting_for_counter = FALSE,
              !.pit_mode = 1]

\* case 0 of PCSPEAKER_SetCounter
SetCounter0(f, duration_of_count_ms, newindex) ==
    [AddPITOutput([f EXCEPT !.pit_output_level = SPKR_NEGATIVE_LEVEL,
                            !.pit_index = 0,
                            !.pit_max = duration_of_count_ms],
                  newindex)
       EXCEPT !.pit_mode = 0]

\* case 1 of PCSPEAKER_SetCounter
SetCounter1(f, duration_of_count_ms) ==
    [f EXCEPT !.pit_mode1_pending_max = duration_of_count_ms,
              !.pit_mode1_waiting_for_trigger =
                   IF f.pit_mode1_waiting_for_counter THEN TRUE ELSE @,
              !.pit_mode1_waiting_for_counter = FALSE,
              !.pit_mode = 1]

\* case 2 of PCSPEAKER_SetCounter
SetCounter2(f, duration_of_count_ms, newindex) ==
    [AddPITOutput([f EXCEPT !.pit_index = 0,
                            !.pit_output_level = SPKR_NEGATIVE_LEVEL],
                  newindex)
       EXCEPT !.pit_half = ms_per_pit_tick,
              !.pit_max = duration_of_count_ms,
              !.pit_mode = 2]

\* The part of PCSPEAKER_SetCounter after ForwardPIT.
SetCounterBody(f, cntr, mode, newindex) ==
    LET duration_of_count_ms == ms_per_pit_tick * cntr IN
    CASE mode = 0 -> SetCounter0(f, duration_of_count_ms, newindex)
      [] mode = 1 -> SetCounter1(f, duration_of_count_ms)
      [] mode = 2 -> SetCounter2(f, duration_of_count_ms, newindex)
      [] mode = 3 -> SetCounter3(f, cntr, duration_of_count_ms, newindex)
      [] mode = 4 ->
           [AddPITOutput([f EXCEPT !.pit_output_level = SPKR_POSITIVE_LEVEL],
                         newindex)
              EXCEPT !.pit_index = 0,
                     !.pit_max = duration_of_count_ms,
                     !.pit_mode = 4]
      [] OTHER -> SetCounterOther(f, cntr, mode, newindex)

PCSPEAKER_SetCounter(s, cntr, mode, newindex) ==
    LET f == ForwardPIT(s, newindex) IN
    IF f.hung THEN f ELSE SetCounterBody(f, cntr, mode, newindex)

\* Variant: a mode-1 trigger that restarts the pulse but keeps the old period.
TriggerMode1_m(f1) ==
    IF f1.pit_mode1_waiting_for_counter THEN f1
    ELSE [f1 EXCEPT !.pit_output_level = SPKR_NEGATIVE_LEVEL,
                    !.pit_index = 0,
                    !.pit_mode1_waiting_for_trigger = FALSE]

\* PCSPEAKER_SetType, trigger, case 1
TriggerMode1(f1) ==
    IF f1.pit_mode1_waiting_for_counter THEN f1
    ELSE [f1 EXCEPT !.pit_output_level = SPKR_NEGATIVE_LEVEL,
                    !.pit_index = 0,
                    !.pit_max = f1.pit_mode1_pending_max,
                    !.pit_mode1_waiting_for_trigger = FALSE]

\* Variant: a mode-3 trigger that does not restart a running square wave.
TriggerMode3_m(f1) ==
    IF f1.pit_mode3_counting THEN f1
    ELSE [f1 EXCEPT !.pit_mode3_counting = TRUE,
                    !.pit_new_half = f1.pit_new_max \div 2,
                    !.pit_index = 0,
                    !.pit_max = f1.pit_new_max,
                    !.pit_half = f1.pit_new_max \div 2,
                    !.pit_output_level = SPKR_POSITIVE_LEVEL]

\* PCSPEAKER_SetType, trigger, case 3
TriggerMode3(f1) ==
    [f1 EXCEPT !.pit_mode3_counting = TRUE,
               !.pit_new_half = f1.pit_new_max \div 2,
               !.pit_index = 0,
               !.pit_max = f1.pit_new_max,
               !.pit_half = f1.pit_new_max \div 2,
               !.pit_output_level = SPKR_POSITIVE_LEVEL]

\* PCSPEAKER_SetType, gate disabled and no trigger
GateDisabled(f1) ==
    CASE f1.pit_mode = 3 ->
           [f1 EXCEPT !.pit_output_level = SPKR_POSITIVE_LEVEL,
                      !.pit_mode3_counting = FALSE]
      [] OTHER -> f1

\* The trigger / gate part of PCSPEAKER_SetType.
SetTypeGate(f, gate, out) ==
    LET pit_trigger == gate /\ ~f.pit_clock_gate_enabled
        f1 == [f EXCEPT !.pit_clock_gate_enabled = gate,
                        !.pit_output_enabled = out]
    IN IF pit_trigger THEN
         CASE f1.pit_mode = 1 -> TriggerMode1(f1)
           [] f1.pit_mode = 3 -> TriggerMode3(f1)
           [] OTHER -> f1
       ELSE IF ~gate THEN GateDisabled(f1)
       ELSE f1

\* Variant: a closing edge that shows the internal level even when the
\* speaker output is disabled.
SetTypeOutput_m(f, out, newindex) ==
    AddDelayEntry(f, newindex, f.pit_output_level)

\* The edge PCSPEAKER_SetType ends with.
SetTypeOutput(f, out, newindex) ==
    IF out THEN AddDelayEntry(f, newindex, f.pit_output_level)
    ELSE AddDelayEntry(f, newindex, SPKR_NEGATIVE_LEVEL)

PCSPEAKER_SetType(s, gate, out, newindex) ==
    LET f == ForwardPIT(s, newindex) IN
    IF f.hung THEN f ELSE SetTypeOutput(SetTypeGate(f, gate, out), out, newindex)

\* ------------------------------------------------------------ render
\* clamp(index, 0.0f, 1.0f)
clamp(x, lo, hi) == IF x < lo THEN lo ELSE IF x > hi THEN hi ELSE x

\* add_impulse: offset and phase of the edge, then SPKR_FILTER_QUALITY taps.
ImpulseOffset(index) ==
    LET offset == (index * rate_per_ms) \div TickLen
        phase == ((index * rate_per_ms * SPKR_OVERSAMPLING) \div TickLen)
                     % SPKR_OVERSAMPLING
    IN IF phase # 0 THEN offset + 1 ELSE offset

ImpulsePhase(index) ==
    LET phase == ((index * rate_per_ms * SPKR_OVERSAMPLING) \div TickLen)
                     % SPKR_OVERSAMPLING
    IN IF phase # 0 THEN SPKR_OVERSAMPLING - phase ELSE phase

add_impulse(buf, index, amplitude) ==
    LET offset == ImpulseOffset(index)
        phase == ImpulsePhase(index)
    IN [j \in 1 .. Len(buf) |->
          IF j - 1 >= offset /\ j - 1 - offset < SPKR_FILTER_QUALITY
          THEN buf[j] + amplitude
                   * sampled_impulse[phase + (j - 1 - offset) * SPKR_OVERSAMPLING + 1]
          ELSE buf[j]]

\* init_interpolation: output_buffer_length for a sample rate in Hz.
output_buffer_length(rate) == SPKR_FILTER_QUALITY + rate \div RatePerMsDiv + 1

\* add_impulse for an edge at position num / PosDen of the tick and a sample
\* rate in Hz: offset and phase as the source computes them, then for each of
\* the SPKR_FILTER_QUALITY taps the buffer slot written and the table entry
\* read.
impulse_taps(num, rate) ==
    LET offset0 == (num * rate) \div (PosDen * RatePerMsDiv)
        phase0 == ((num * rate * SPKR_OVERSAMPLING) \div (PosDen * RatePerMsDiv))
                      % SPKR_OVERSAMPLING
        offset == IF phase0 # 0 THEN offset0 + 1 ELSE offset0
        phase == IF phase0 # 0 THEN SPKR_OVERSAMPLING - phase0 ELSE phase0
    IN [i \in 1 .. SPKR_FILTER_QUALITY |->
          [slot |-> offset + (i - 1), entry |-> phase + (i - 1) * SPKR_OVERSAMPLING]]

RECURSIVE AddImpulses_m(_, _, _)
\* Variant: a drain that stops before the last logged edge.
AddImpulses_m(buf, entries, i) ==
    IF i >= Len(entries) THEN buf
    ELSE AddImpulses_m(add_impulse(buf, clamp(entries[i].index, 0, TickLen),
                                   entries[i].output_level),
                       entries, i + 1)

RECURSIVE AddImpulses(_, _, _)
\* PCSPEAKER_CallBack: for (i = 0; i < spkr.used; ++i) add_impulse(...)
AddImpulses(buf, entries, i) ==
    IF i > Len(entries) THEN buf
    ELSE AddImpulses(add_impulse(buf, clamp(entries[i].index, 0, TickLen),
                                 entries[i].output_level),
                     entries, i + 1)

\* current_output_level *= SPKR_HIGHPASS, truncated to a whole number
Highpass(level) ==
    IF level >= 0 THEN (level * HighpassNum) \div HighpassDen
    ELSE -(((-level) * HighpassNum) \div HighpassDen)

RECURSIVE Consume(_, _, _, _, _)
\* PCSPEAKER_CallBack: the "consume" loop; yields the samples written and
\* the level left in current_output_level.
Consume(buf, i, len, level, samples) ==
    IF i >= len THEN [samples |-> samples, level |-> level]
    ELSE LET l == level + buf[i + 1] IN
         Consume(buf, i + 1, len, Highpass(l), Append(samples, l))

\* PCSPEAKER_CallBack: shift out the consumed samples, zero the rest.
Shift(buf, len) ==
    [j \in 1 .. Len(buf) |-> IF j + len <= Len(buf) THEN buf[j + len] ELSE 0]

Zeros(n) == [j \in 1 .. n |-> 0]

\* The number of frames PCSPEAKER_CallBack passes to AddSamples_m16.
FramesHanded(len) == IF len > BufLen THEN BufLen ELSE len

\* PCSPEAKER_CallBack: advance to tick end, restart the tick, drain the log
\* into the buffer, consume len samples and hand them to the mixer channel.
\* The result carries the handed samples in the field stream.
PCSPEAKER_CallBack(s, len) ==
    LET f == ForwardPIT(s, TickLen) IN
    IF f.hung THEN f
    ELSE LET buf == AddImpulses(f.output_buffer, f.entries, 1)
             pad == IF len > BufLen THEN Zeros(len - BufLen) ELSE <<>>
             len2 == IF len > BufLen THEN BufLen ELSE len
             c == Consume(buf, 0, len2, f.current_output_level, <<>>)
             mix_buffer == pad \o c.samples
         IN [f EXCEPT !.last_index = 0,
                      !.entries = <<>>,
                      !.output_buffer = Shift(buf, len2),
                      !.current_output_level = c.level,
                      !.stream = SubSeq(mix_buffer, 1, FramesHanded(len))]

\* ------------------------------------------------------------ VMware mouse
\* VMwareCmd, VMwareAbsPointer, VMwareButton and the magic number.
GETVERSION == 10
ABSPOINTER_DATA == 39
ABSPOINTER_STATUS == 40
ABSPOINTER_COMMAND == 41
ENABLE == 1161905490
RELATIVE == 245
ABSOLUTE == 1396851026
LEFT == 32
RIGHT == 16
MIDDLE == 8
VMWARE_MAGIC == 1447909480
INT8_MIN == -128
INT8_MAX == 127

\* Registers are 32 bits wide; reg_ax and reg_cx are their low 16 bits.
Low16(x) == x % 65536
\* static_cast<int16_t> of an int.
Int16(x) == ((x + 32768) % 65536) - 32768

\* mouse_video as the rest of the emulator may have set it: the screen mode,
\* the resolution of the guest image (at least 2 by 2, small here so that
\* the float arithmetic of the scaling is exact) and the black borders.
Videos ==
    {[fullscreen |-> TRUE, res_x |-> 3, res_y |-> 2, clip_x |-> 1, clip_y |-> 0],
     [fullscreen |-> FALSE, res_x |-> 5, res_y |-> 3, clip_x |-> 1, clip_y |-> 1]}
Coords == {0, MaxPos}
WheelMoves == {-200, 200}
\* No button, the left one, the right and the middle one together.
Buttons == {0, 1, 6}
\* The registers a guest loads before it reads the port: every command with
\* the magic number, the subcommands of ABSPOINTER_COMMAND, a command with
\* bits set above CX, and reads whose EAX is not the magic number (one of
\* them agrees with it in AX).
Reads ==
    {[eax |-> VMWARE_MAGIC, ebx |-> 0, ecx |-> c, edx |-> 0] :
        c \in {GETVERSION, ABSPOINTER_DATA, ABSPOINTER_STATUS, ABSPOINTER_COMMAND,
               0, 65536 + ABSPOINTER_STATUS}}
      \cup {[eax |-> VMWARE_MAGIC, ebx |-> b, ecx |-> ABSPOINTER_COMMAND, edx |-> 0] :
              b \in {ENABLE, RELATIVE, ABSOLUTE}}
      \cup {[eax |-> a, ebx |-> 0, ecx |-> c, edx |-> 0] :
              a \in {0, 4, Low16(VMWARE_MAGIC)}, c \in {ABSPOINTER_STATUS}}

\* The statics of the interface, mouse_video (a fullscreen image without
\* borders as MouseInfoVideo constructs it, at the model's resolution) and
\* the CPU registers.
InitDev ==
    [updated |-> FALSE,
     buttons_vmware |-> 0,
     scaled_x |-> 32767,
     scaled_y |-> 32767,
     wheel |-> 0,
     offset_x |-> 0,
     offset_y |-> 0,
     mouse_vmware |-> FALSE,
     video |-> [fullscreen |-> TRUE, res_x |-> 3, res_y |-> 3,
                clip_x |-> 0, clip_y |-> 0],
     reg |-> [eax |-> 0, ebx |-> 0, ecx |-> 0, edx |-> 0]]

CmdGetVersion(d) ==
    [d EXCEPT !.reg.eax = 0, !.reg.ebx = VMWARE_MAGIC]

CmdAbsPointerData(d) ==
    [d EXCEPT !.reg.eax = d.buttons_vmware,
              !.reg.ebx = d.scaled_x,
              !.reg.ecx = d.scaled_y,
              !.reg.edx = IF d.wheel >= 0 THEN d.wheel ELSE 256 + d.wheel,
              !.wheel = 0]

\* A status command that leaves the update pending.
CmdAbsPointerStatus_m(d) ==
    [d EXCEPT !.reg.eax = IF d.updated THEN 4 ELSE 0]

CmdAbsPointerStatus(d) ==
    [d EXCEPT !.reg.eax = IF d.updated THEN 4 ELSE 0,
              !.updated = FALSE]

CmdAbsPointerCommand(d) ==
    CASE d.reg.ebx = ENABLE -> d
      [] d.reg.ebx = RELATIVE -> [d EXCEPT !.mouse_vmware = FALSE]
      [] d.reg.ebx = ABSOLUTE -> [d EXCEPT !.mouse_vmware = TRUE, !.wheel = 0]
      [] OTHER -> d

\* PortReadVMware: the state it leaves and the value it returns.
PortReadVMware(d) ==
    IF d.reg.eax # VMWARE_MAGIC THEN [dev |-> d, ret |-> 0]
    ELSE LET cx == Low16(d.reg.ecx)
             e == CASE cx = GETVERSION -> CmdGetVersion(d)
                    [] cx = ABSPOINTER_DATA -> CmdAbsPointerData(d)
                    [] cx = ABSPOINTER_STATUS -> CmdAbsPointerStatus(d)
                    [] cx = ABSPOINTER_COMMAND -> CmdAbsPointerCommand(d)
                    [] OTHER -> d
         IN [dev |-> e, ret |-> Low16(e.reg.eax)]

\* The offset between host and guest coordinates after a move in fullscreen
\* mode, for one axis.
NewOffset(abs, offset, clip, res) ==
    IF abs + offset < clip THEN Int16(clip - abs)
    ELSE IF abs + offset >= res + clip THEN Int16(res + clip - abs - 1)
    ELSE offset

\* static_cast<uint32_t>(vmw * 0xffff / (res - 1) + 0.499), at most 0xffff.
Scale(vmw, res) ==
    LET q == (vmw * 65535 * 1000 + 499 * (res - 1)) \div (1000 * (res - 1))
    IN IF q > 65535 THEN 65535 ELSE q

\* MOUSEVMWARE_NotifyMoved: the state it leaves and the value it returns.
MOUSEVMWARE_NotifyMoved(d, x_abs, y_abs) ==
    LET v == d.video
        ox == IF v.fullscreen
              THEN NewOffset(x_abs, d.offset_x, v.clip_x, v.res_x) ELSE d.offset_x
        oy == IF v.fullscreen
              THEN NewOffset(y_abs, d.offset_y, v.clip_y, v.res_y) ELSE d.offset_y
        vmw_x == IF v.fullscreen THEN x_abs + ox - v.clip_x
                 ELSE IF x_abs - v.clip_x > 0 THEN x_abs - v.clip_x ELSE 0
        vmw_y == IF v.fullscreen THEN y_abs + oy - v.clip_y
                 ELSE IF y_abs - v.clip_y > 0 THEN y_abs - v.clip_y ELSE 0
        sx == Scale(vmw_x, v.res_x)
        sy == Scale(vmw_y, v.res_y)
    IN [dev |-> [d EXCEPT !.offset_x = ox, !.offset_y = oy,
                          !.scaled_x = sx, !.scaled_y = sy,
                          !.updated = TRUE],
        ret |-> d.mouse_vmware /\ (d.scaled_x # sx \/ d.scaled_y # sy)]

\* MOUSEVMWARE_NotifyPressedReleased: buttons_12S has bit 0 for the left,
\* bit 1 for the right and bit 2 for the middle button.
MOUSEVMWARE_NotifyPressedReleased(d, buttons_12S) ==
    [d EXCEPT !.buttons_vmware =
                  (IF buttons_12S % 2 = 1 THEN LEFT ELSE 0)
                    + (IF (buttons_12S \div 2) % 2 = 1 THEN RIGHT ELSE 0)
                    + (IF (buttons_12S \div 4) % 2 = 1 THEN MIDDLE ELSE 0),
              !.updated = TRUE]

MOUSEVMWARE_NotifyWheel(d, w_rel) ==
    IF d.mouse_vmware
    THEN [d EXCEPT !.wheel = clamp(w_rel + d.wheel, INT8_MIN, INT8_MAX),
                   !.updated = TRUE]
    ELSE d

\* MOUSEVMWARE_NewScreenParams: the offsets are clamped to the borders, then
\* a move is reported; ret tells whether MOUSE_NotifyMovedFake is called.
MOUSEVMWARE_NewScreenParams(d, x_abs, y_abs) ==
    LET v == d.video
        c == [d EXCEPT !.offset_x = Int16(clamp(d.offset_x, -v.clip_x, v.clip_x)),
                       !.offset_y = Int16(clamp(d.offset_y, -v.clip_y, v.clip_y))]
        r == MOUSEVMWARE_NotifyMoved(c, x_abs, y_abs)
    IN [dev |-> r.dev, ret |-> r.ret /\ c.mouse_vmware]

\* The interface with the observer's record of the last call (op: its name,
\* whether it was a port read with the magic number and of which command,
\* what it returned, whether it left every static and register as it was)
\* and of the notifications that arrived since the last status read (since;
\* had is since before the last call).
InitMouse ==
    [dev |-> InitDev,
     op |-> [name |-> "Init", magic |-> FALSE, cx |-> 0, ret |-> 0,
             same |-> TRUE, had |-> {}],
     since |-> {}]

\* ------------------------------------------------------------ initial state
\* The struct's member initialisers and the PCSPEAKER constructor.
InitSpkr ==
    [pit_mode |-> 3,
     pit_output_enabled |-> FALSE,
     pit_clock_gate_enabled |-> FALSE,
     pit_output_level |-> SPKR_POSITIVE_LEVEL,
     pit_new_max |-> ms_per_pit_tick * InitialCounter,
     pit_new_half |-> (ms_per_pit_tick * InitialCounter) \div 2,
     pit_max |-> ms_per_pit_tick * InitialCounter,
     pit_half |-> (ms_per_pit_tick * InitialCounter) \div 2,
     pit_index |-> 0,
     pit_mode1_waiting_for_counter |-> FALSE,
     pit_mode1_waiting_for_trigger |-> TRUE,
     pit_mode1_pending_max |-> 0,
     pit_mode3_counting |-> FALSE,
     last_index |-> 0,
     entries |-> <<>>,
     previous_output_level |-> SPKR_NEGATIVE_LEVEL,
     output_buffer |-> Zeros(BufLen),
     current_output_level |-> 0,
     emitted |-> <<>>,
     stream |-> <<>>,
     stored |-> [first |-> 0, last |-> 0, repeated |-> FALSE],
     hung |-> FALSE]

\* ------------------------------------------------------------ observer
\* The observer records the last call (call), the state it started from (pre)
\* and, since the last call that
\* reprogrammed the timer (win.prog, leaving it in state win.start), the time
\* elapsed (win.since) and every edge that passed the deduplication, stored
\* or dropped (win.trace, times relative to the start of the window).
Beyond == MaxSince + 1

Rest(r) == [r EXCEPT !.emitted = <<>>, !.stream = <<>>]

Call(op, a, b) == [op |-> op, a |-> a, b |-> b]

B2N(b) == IF b THEN 1 ELSE 0

\* Edges of a forward advancement from position base, as window-relative times.
Rel(es, base, at0) ==
    [k \in 1 .. Len(es) |->
        [at |-> at0 + (es[k].index - base), level |-> es[k].output_level, by |-> "fwd"]]

\* A call that only forwards: the window goes on.
Observe(r, passed, c) ==
    /\ call' = c
    /\ win' = IF win.since = Beyond \/ win.since + passed > MaxSince \/ r.hung
              THEN [win EXCEPT !.since = Beyond, !.trace = <<>>]
              ELSE [win EXCEPT !.since = @ + passed,
                               !.trace = @ \o Rel(r.emitted, spkr.last_index, win.since)]

\* A call that reprograms the timer: a new window starts at the call.
Restart(r, nfwd, c) ==
    /\ call' = c
    /\ win' = [prog |-> c, start |-> Rest(r), since |-> 0,
               trace |-> [k \in 1 .. (Len(r.emitted) - nfwd) |->
                            [at |-> 0, level |-> r.emitted[nfwd + k].output_level,
                             by |-> "op"]]]

\* ------------------------------------------------------------ actions
\* No edge has been given to the impulse synthesizer on its own.
NoImpulse == [rate |-> rate_per_ms * RatePerMsDiv, num |-> 0, taps |-> <<>>]

Init ==
    /\ spkr = InitSpkr
    /\ chan = <<>>
    /\ calls = 0
    /\ call = Call("Init", 0, 0)
    /\ pre = InitSpkr
    /\ win = [prog |-> Call("Init", 0, 0), start |-> InitSpkr,
              since |-> 0, trace |-> <<>>]
    /\ imp = NoImpulse
    /\ mouse = InitMouse

\* One call of each entry point, with the observer's bookkeeping; bound is
\* the number of calls a run may make.
SetPITControlCall(mode, newindex, bound) ==
    /\ ~spkr.hung /\ calls < bound
    /\ newindex >= spkr.last_index
    /\ calls' = calls + 1 /\ pre' = spkr /\ UNCHANGED <<chan, imp, mouse>>
    /\ LET r == PCSPEAKER_SetPITControl(spkr, mode, newindex)
           c == Call("SetPITControl", mode, 0)
       IN /\ spkr' = Rest(r)
          /\ IF mode \in {1, 3} /\ ~r.hung
             THEN Restart(r, Len(ForwardPIT(spkr, newindex).emitted), c)
             ELSE Observe(r, newindex - spkr.last_index, c)

SetCounterCall(cntr, mode, newindex, bound) ==
    /\ ~spkr.hung /\ calls < bound
    /\ newindex >= spkr.last_index
    /\ calls' = calls + 1 /\ pre' = spkr /\ UNCHANGED <<chan, imp, mouse>>
    /\ LET r == PCSPEAKER_SetCounter(spkr, cntr, mode, newindex)
           c == Call("SetCounter", cntr, mode)
       IN /\ spkr' = Rest(r)
          /\ IF mode \in 0 .. 4 /\ ~r.hung
             THEN Restart(r, Len(ForwardPIT(spkr, newindex).emitted), c)
             ELSE Observe(r, newindex - spkr.last_index, c)

SetTypeCall(gate, out, newindex, bound) ==
    /\ ~spkr.hung /\ calls < bound
    /\ newindex >= spkr.last_index
    /\ calls' = calls + 1 /\ pre' = spkr /\ UNCHANGED <<chan, imp, mouse>>
    /\ LET r == PCSPEAKER_SetType(spkr, gate, out, newindex)
           c == Call("SetType", B2N(gate), B2N(out))
       IN /\ spkr' = Rest(r)
          /\ IF ~r.hung
             THEN Restart(r, Len(ForwardPIT(spkr, newindex).emitted), c)
             ELSE Observe(r, newindex - spkr.last_index, c)

RenderCall(len, bound) ==
    /\ ~spkr.hung /\ calls < bound
    /\ calls' = calls + 1 /\ pre' = spkr /\ UNCHANGED <<imp, mouse>>
    /\ LET r == PCSPEAKER_CallBack(spkr, len)
           c == Call("Render", len, 0)
       IN /\ spkr' = Rest(r)
          /\ chan' = IF r.hung THEN chan ELSE r.stream
          /\ Observe(r, TickLen - spkr.last_index, c)

\* Every call with every argument, in short runs.
SetPITControl ==
    \E mode \in Modes, newindex \in Positions :
      SetPITControlCall(mode, newindex, MaxCalls)

SetCounter ==
    \E cntr \in Counts, mode \in Modes, newindex \in Positions :
      SetCounterCall(cntr, mode, newindex, MaxCalls)

SetType ==
    \E gate \in BOOLEAN, out \in BOOLEAN, newindex \in Positions :
      SetTypeCall(gate, out, newindex, MaxCalls)

Render == \E len \in RenderLens : RenderCall(len, MaxCalls)

Next == SetPITControl \/ SetCounter \/ SetType \/ Render

Spec == Init /\ [][Next]_vars

\* Longer runs of a guest that keeps the gate enabled and switches between
\* the one-shot mode 0 and the square wave, with renders of one tick.
LongSetCounter ==
    \E cntr \in LongCounts, mode \in {0, 3}, newindex \in LongPositions :
      SetCounterCall(cntr, mode, newindex, MaxLongCalls)

LongSetType ==
    \E out \in BOOLEAN, newindex \in LongPositions :
      SetTypeCall(TRUE, out, newindex, MaxLongCalls)

LongRender == RenderCall(rate_per_ms, MaxLongCalls)

NextLong == LongSetCounter \/ LongSetType \/ LongRender

SpecLong == Init /\ [][NextLong]_vars

\* Runs of a guest that only switches the speaker output on and off, many
\* times within a tick, with renders of one tick.
BurstSetType ==
    \E out \in BOOLEAN : SetTypeCall(FALSE, out, spkr.last_index, MaxBurstCalls)

BurstRender == RenderCall(rate_per_ms, MaxBurstCalls)

NextBurst == BurstSetType \/ BurstRender

SpecBurst == Init /\ [][NextBurst]_vars

\* Runs of a guest that opens and closes the gate while it programs the
\* retriggerable one-shot (mode 1) and the square wave, with renders of one
\* tick.
GateSetCounter ==
    \E cntr \in LongCounts, mode \in {1, 3}, newindex \in LongPositions :
      SetCounterCall(cntr, mode, newindex, MaxGateCalls)

GateSetType ==
    \E gate \in BOOLEAN, newindex \in LongPositions :
      SetTypeCall(gate, TRUE, newindex, MaxGateCalls)

GateRender == RenderCall(rate_per_ms, MaxGateCalls)

NextGate == GateSetCounter \/ GateSetType \/ GateRender

SpecGate == Init /\ [][NextGate]_vars

\* Runs of a guest that enables gate and output and programs the rate
\* generator (mode 2) and the square wave with counts above 0, while calls
\* that only advance the timer arrive at every position of the tick, with
\* renders of one tick.
WaveSetCounter ==
    \E cntr \in 1 .. MaxCount, mode \in {2, 3}, newindex \in Positions :
      SetCounterCall(cntr, mode, newindex, MaxWaveCalls)

WaveSetType == SetTypeCall(TRUE, TRUE, spkr.last_index, MaxWaveCalls)

WaveForward ==
    \E newindex \in Positions : SetPITControlCall(0, newindex, MaxWaveCalls)

WaveRender == RenderCall(rate_per_ms, MaxWaveCalls)

NextWave == WaveSetCounter \/ WaveSetType \/ WaveForward \/ WaveRender

SpecWave == Init /\ [][NextWave]_vars

\* The impulse synthesizer on its own: a configured sample rate and an edge
\* position clamped to the tick are chosen, then add_impulse computes where
\* its taps go.
InitImpulse ==
    /\ spkr = InitSpkr /\ chan = <<>> /\ calls = 0
    /\ call = Call("Init", 0, 0) /\ pre = InitSpkr
    /\ win = [prog |-> Call("Init", 0, 0), start |-> InitSpkr,
              since |-> 0, trace |-> <<>>]
    /\ imp \in [rate : Rates, num : 0 .. PosDen, taps : {<<>>}]
    /\ mouse = InitMouse

AddImpulse ==
    /\ imp.taps = <<>>
    /\ imp' = [imp EXCEPT !.taps = impulse_taps(imp.num, imp.rate)]
    /\ UNCHANGED <<spkr, chan, calls, call, pre, win, mouse>>

SpecImpulse == InitImpulse /\ [][AddImpulse]_vars

\* The VMware mouse interface on its own: the host reports moves, buttons,
\* wheel turns and new screen parameters, and the guest loads the registers
\* and reads the port, in any order.
MouseStep(name, guest, r, kinds) ==
    LET status == guest.eax = VMWARE_MAGIC /\ Low16(guest.ecx) = ABSPOINTER_STATUS
    IN /\ calls < MaxMouseCalls /\ calls' = calls + 1
       /\ mouse' = [dev |-> r.dev,
                    op |-> [name |-> name,
                            magic |-> guest.eax = VMWARE_MAGIC,
                            cx |-> Low16(guest.ecx),
                            ret |-> r.ret,
                            same |-> r.dev = [mouse.dev EXCEPT !.reg = guest],
                            had |-> mouse.since],
                    since |-> IF name = "Read" /\ status THEN {}
                              ELSE mouse.since \cup kinds]
       /\ UNCHANGED <<spkr, chan, call, pre, win, imp>>

MouseMoved ==
    \E x_abs \in Coords, y_abs \in Coords :
      MouseStep("Moved", mouse.dev.reg,
                MOUSEVMWARE_NotifyMoved(mouse.dev, x_abs, y_abs), {"move"})

MousePressedReleased ==
    \E buttons_12S \in Buttons :
      MouseStep("PressedReleased", mouse.dev.reg,
                [dev |-> MOUSEVMWARE_NotifyPressedReleased(mouse.dev, buttons_12S),
                 ret |-> FALSE], {"button"})

MouseWheel ==
    \E w_rel \in WheelMoves :
      MouseStep("Wheel", mouse.dev.reg,
                [dev |-> MOUSEVMWARE_NotifyWheel(mouse.dev, w_rel), ret |-> FALSE],
                {IF mouse.dev.mouse_vmware THEN "wheel" ELSE "wheel off"})

MouseNewScreenParams ==
    \E v \in Videos, x_abs \in Coords, y_abs \in Coords :
      MouseStep("NewScreenParams", mouse.dev.reg,
                MOUSEVMWARE_NewScreenParams([mouse.dev EXCEPT !.video = v],
                                            x_abs, y_abs), {"move"})

MousePortRead ==
    \E guest \in Reads :
      MouseStep("Read", guest,
                PortReadVMware([mouse.dev EXCEPT !.reg = guest]), {})

NextMouse ==
    MouseMoved \/ MousePressedReleased \/ MouseWheel \/ MouseNewScreenParams
      \/ MousePortRead

SpecMouse == Init /\ [][NextMouse]_vars

\* ------------------------------------------------------------ claims
\* Shorthands over the observer.
P(cntr) == ms_per_pit_tick * cntr
InWindow == win.since # Beyond /\ ~spkr.hung
\* The edges of the window that forward advancement emitted.
FwdEdges == SelectSeq(win.trace, LAMBDA e : e.by = "fwd")
Edge(at, level) == [at |-> at, level |-> level, by |-> "fwd"]

\* The last call, made again from the state it started in; its field emitted
\* holds every edge of the call that passed the deduplication.
ReCall ==
    CASE call.op = "SetPITControl" ->
           PCSPEAKER_SetPITControl(pre, call.a, spkr.last_index)
      [] call.op = "SetCounter" ->
           PCSPEAKER_SetCounter(pre, call.a, call.b, spkr.last_index)
      [] call.op = "SetType" ->
           PCSPEAKER_SetType(pre, call.a = 1, call.b = 1, spkr.last_index)
      [] call.op = "Render" -> PCSPEAKER_CallBack(pre, call.a)
      [] OTHER -> pre
\* The last call was a control call (not a render) that returned.
ControlCall == call.op \in {"SetPITControl", "SetCounter", "SetType"} /\ ~spkr.hung
Min(a, b) == IF a < b THEN a ELSE b

\* C1: the edges held in the Edge Log are in non-decreasing time order and
\* any two consecutive stored edges have different levels.
C1_LogOrderedAlternating ==
    \A k \in 1 .. Len(spkr.entries) - 1 :
        /\ spkr.entries[k].index <= spkr.entries[k + 1].index
        /\ spkr.entries[k].output_level # spkr.entries[k + 1].output_level

\* C2: in mode 3, counting, with a constant period and the output enabled,
\* forward advancement from the start of a period emits one edge at every
\* half period, falling at the odd and rising at the even multiples, and
\* nothing else, however the span is split over calls and ticks: 2N edges
\* over N periods.
Mode3Square ==
    /\ InWindow
    /\ win.start.pit_mode = 3 /\ win.start.pit_mode3_counting
    /\ win.start.pit_output_enabled
    /\ win.start.pit_index = 0
    /\ win.start.pit_output_level = SPKR_POSITIVE_LEVEL
    /\ win.start.pit_max = win.start.pit_new_max
    /\ win.start.pit_half = win.start.pit_new_half
Mode1Pulse ==
    /\ InWindow /\ win.prog.op = "SetType"
    /\ win.start.pit_mode = 1
    /\ ~win.start.pit_mode1_waiting_for_counter
    /\ ~win.start.pit_mode1_waiting_for_trigger
    /\ win.start.pit_index = 0
    /\ win.start.pit_output_enabled
C3_Mode1PulseEdges ==
    Mode1Pulse =>
      /\ win.start.previous_output_level = SPKR_NEGATIVE_LEVEL
      /\ win.since < win.start.pit_max => FwdEdges = <<>>
      /\ (win.since >= win.start.pit_max /\ win.since > 0)
             => FwdEdges = <<Edge(win.start.pit_max, SPKR_POSITIVE_LEVEL)>>

\* C4: after SetCounter(count, 4) with the output enabled, forward
\* advancement produces exactly one falling edge, at count * ms_per_pit_tick
\* after the command, and nothing else until the timer is reprogrammed.
C4_OneStrobeEdge ==
    (InWindow /\ win.prog.op = "SetCounter" /\ win.prog.b = 4
              /\ spkr.pit_output_enabled)
    => /\ win.since < P(win.prog.a) => FwdEdges = <<>>
       /\ (win.since >= P(win.prog.a) /\ win.since > 0)
              => FwdEdges = <<Edge(P(win.prog.a), SPKR_NEGATIVE_LEVEL)>>

\* The last call was SetCounter(count, 3) with a count below the minimum.
DummyEntered ==
    call.op = "SetCounter" /\ call.b = 3 /\ call.a < minimum_counter /\ ~spkr.hung
\* The last call started and ended in the dummy mode.
DummyKept ==
    call.op # "Init" /\ ~spkr.hung /\ pre.pit_mode = 6 /\ spkr.pit_mode = 6
\* The last call emitted no edge: the level the deduplication remembers and
\* the stored edges are as before, or the log was drained by a render.
NoEdge ==
    /\ spkr.previous_output_level = pre.previous_output_level
    /\ spkr.entries = (IF call.op = "Render" THEN <<>> ELSE pre.entries)

\* C5 as stated: SetCounter(count, 3) with count below the minimum enters the
\* dummy mode with the output high, and while the mode is kept no call
\* (forward advance, render, SetType, rejected call) emits an edge.
C5_DummyNoEdges ==
    /\ DummyEntered => (spkr.pit_mode = 6 /\ spkr.pit_output_level = SPKR_POSITIVE_LEVEL)
    /\ DummyKept => (spkr.pit_output_level = SPKR_POSITIVE_LEVEL /\ NoEdge)

\* C5 amended: in the dummy mode the timer's output level stays high and
\* forward advancement, render and rejected calls emit no edge; SetType
\* leaves the line high when it enables the speaker output and low when it
\* disables it, emitting at most one edge, at the call's position, when that
\* changes the line.
C5_DummyOnlySetTypeEdges ==
    /\ DummyEntered => (spkr.pit_mode = 6 /\ spkr.pit_output_level = SPKR_POSITIVE_LEVEL)
    /\ DummyKept =>
         /\ spkr.pit_output_level = SPKR_POSITIVE_LEVEL
         /\ call.op # "SetType" => NoEdge
         /\ call.op = "SetType" =>
              LET line == IF call.b = 1 THEN SPKR_POSITIVE_LEVEL
                          ELSE SPKR_NEGATIVE_LEVEL
                  e == [index |-> spkr.last_index, output_level |-> line]
              IN /\ spkr.previous_output_level = line
                 /\ spkr.entries =
                      (IF line = pre.previous_output_level
                          \/ Len(pre.entries) = SPKR_ENTRIES
                       THEN pre.entries ELSE Append(pre.entries, e))
\* SetType in the dummy mode has switched the speaker output off and stored
\* the falling edge.
C5_Witness ==
    /\ DummyKept /\ call.op = "SetType" /\ call.b = 0
    /\ pre.previous_output_level = SPKR_POSITIVE_LEVEL
    /\ Len(spkr.entries) = Len(pre.entries) + 1

\* C6: a render call with requested count len hands exactly len samples to
\* the mixer channel.
C6_RenderHandsLen ==
    (call.op = "Render" /\ ~spkr.hung) => Len(chan) = call.a

\* The last call was a render of length 0 that returned.
Render0 == call.op = "Render" /\ call.a = 0 /\ ~spkr.hung

\* C7 as stated: a render call of length 0 leaves the accumulation buffer
\* and the Edge Log unchanged.
C7_Render0LeavesBufferAndLog ==
    Render0 => (spkr.output_buffer = pre.output_buffer /\ spkr.entries = pre.entries)

\* C7 amended: a render call of length 0 advances the timer to the tick end,
\* resets last_index, drains the Edge Log (the logged edges and those of the
\* forced advance) into the accumulation buffer and empties it; it consumes
\* and hands no sample, shifts nothing and leaves the running output level;
\* with no edge to drain the buffer is unchanged.
C7_Render0DrainsOnly ==
    Render0 =>
      LET f == ForwardPIT(pre, TickLen)
          buf == AddImpulses(pre.output_buffer, f.entries, 1)
      IN /\ spkr = Rest([f EXCEPT !.last_index = 0, !.entries = <<>>,
                                  !.output_buffer = buf])
         /\ chan = <<>>
         /\ spkr.current_output_level = pre.current_output_level
         /\ f.entries = <<>> => spkr.output_buffer = pre.output_buffer
\* A render of length 0 found pending edges and changed the buffer.
C7_Witness ==
    /\ Render0 /\ pre.entries # <<>>
    /\ spkr.entries = <<>> /\ spkr.output_buffer # pre.output_buffer

\* C8: the Edge Log never holds more than its capacity; a control call never
\* modifies a stored entry, stores every edge that passes the deduplication
\* while there is room and drops those that arrive when the log is full; a
\* render call empties the log, so that edges are stored again.
C8_LogBounded ==
    /\ Len(spkr.entries) <= SPKR_ENTRIES
    /\ ControlCall =>
         /\ Len(pre.entries) <= Len(spkr.entries)
         /\ SubSeq(spkr.entries, 1, Len(pre.entries)) = pre.entries
         /\ Len(spkr.entries) =
              Min(SPKR_ENTRIES, Len(pre.entries) + Len(ReCall.emitted))
         /\ \A k \in 1 .. Len(spkr.entries) - Len(pre.entries) :
              spkr.entries[Len(pre.entries) + k] = ReCall.emitted[k]
    /\ (call.op = "Render" /\ ~spkr.hung) => spkr.entries = <<>>
\* The log was full, an edge arrived and was dropped.
C8_Witness ==
    /\ ControlCall /\ Len(pre.entries) = SPKR_ENTRIES
    /\ spkr.entries = pre.entries
    /\ spkr.previous_output_level # pre.previous_output_level

\* C9: every call of SetPITControl, SetCounter, SetType and render
\* terminates: no forward-advance loop returns to a state it was in.
C9_EveryCallTerminates == ~spkr.hung

\* The last call was SetPITControl with a mode other than 1 and 3.
Rejected == call.op = "SetPITControl" /\ call.a \notin {1, 3} /\ ~spkr.hung

\* C10: SetPITControl with a mode other than 1 or 3 does what forward
\* advancement to the call's position does and nothing else: mode, period,
\* gating and waiting flags are as before, and index, output level and log
\* are as the advancement left them.
C10_RejectedControl ==
    Rejected =>
      LET f == ForwardPIT(pre, spkr.last_index) IN
      /\ spkr = Rest(f)
      /\ spkr.pit_mode = pre.pit_mode
      /\ spkr.pit_new_max = pre.pit_new_max /\ spkr.pit_new_half = pre.pit_new_half
      /\ spkr.pit_clock_gate_enabled = pre.pit_clock_gate_enabled
      /\ spkr.pit_output_enabled = pre.pit_output_enabled
      /\ spkr.pit_mode3_counting = pre.pit_mode3_counting
      /\ spkr.pit_mode1_waiting_for_counter = pre.pit_mode1_waiting_for_counter
      /\ spkr.pit_mode1_pending_max = pre.pit_mode1_pending_max
      /\ spkr.last_index = pre.last_index =>
           (spkr.entries = pre.entries /\ spkr.pit_index = pre.pit_index
              /\ spkr.pit_output_level = pre.pit_output_level)
\* A rejected control call was made while the output level was low and the
\* output enabled, and its forward advancement emitted an edge.
C10_Witness ==
    /\ Rejected /\ pre.pit_output_enabled
    /\ pre.pit_output_level = SPKR_NEGATIVE_LEVEL
    /\ Len(spkr.entries) > Len(pre.entries)

\* The last call was SetCounter with a mode outside 0 .. 4.
Unhandled == call.op = "SetCounter" /\ call.b \notin 0 .. 4 /\ ~spkr.hung

\* C11: SetCounter with a mode outside 0 .. 4 does what forward advancement
\* to the call's position does and nothing else: mode, periods (current,
\* staged, pending) and flags are as before, and index, output level and
\* log are as the advancement left them.
C11_UnhandledCounterMode ==
    Unhandled =>
      LET f == ForwardPIT(pre, spkr.last_index) IN
      /\ spkr = Rest(f)
      /\ spkr.pit_mode = pre.pit_mode
      /\ spkr.pit_new_max = pre.pit_new_max /\ spkr.pit_new_half = pre.pit_new_half
      /\ spkr.pit_mode1_pending_max = pre.pit_mode1_pending_max
      /\ spkr.pit_clock_gate_enabled = pre.pit_clock_gate_enabled
      /\ spkr.pit_output_enabled = pre.pit_output_enabled
      /\ spkr.pit_mode3_counting = pre.pit_mode3_counting
      /\ spkr.pit_mode1_waiting_for_counter = pre.pit_mode1_waiting_for_counter
      /\ spkr.last_index = pre.last_index =>
           (spkr.entries = pre.entries /\ spkr.pit_index = pre.pit_index
              /\ spkr.pit_max = pre.pit_max /\ spkr.pit_half = pre.pit_half
              /\ spkr.pit_output_level = pre.pit_output_level
              /\ spkr.pit_mode1_waiting_for_trigger = pre.pit_mode1_waiting_for_trigger)
\* SetCounter with an unhandled mode and a count that a handled mode would
\* have taken was made in another mode than the power-on one, and its
\* forward advancement emitted an edge.
C11_Witness ==
    /\ Unhandled /\ call.a >= minimum_counter /\ pre.pit_mode # 3
    /\ Len(spkr.entries) > Len(pre.entries)

\* C12: every edge stored in the Edge Log has a position within the current
\* tick, 0 .. TickLen (the source's [0, 1]).
C12_PositionsInTick ==
    \A k \in 1 .. Len(spkr.entries) : spkr.entries[k].index \in 0 .. TickLen

\* The running output levels the consume loop of the last render went
\* through, one for each sample consumed.
Consumed ==
    LET f == ForwardPIT(pre, TickLen)
        buf == AddImpulses(f.output_buffer, f.entries, 1)
    IN Consume(buf, 0, FramesHanded(call.a), f.current_output_level, <<>>).samples

\* C13: during every render call the running output level stays within the
\* signed 16-bit range MIN_AUDIO .. MAX_AUDIO at every sample consumed.
C13_LevelInRange ==
    (call.op = "Render" /\ ~spkr.hung) =>
      \A k \in 1 .. Len(Consumed) : Consumed[k] \in MIN_AUDIO .. MAX_AUDIO

\* C14: for every sample rate and every edge position within the tick, each
\* tap of add_impulse is written inside the accumulation buffer and read
\* inside the kernel table.
C14_TapsInside ==
    \A k \in 1 .. Len(imp.taps) :
      /\ imp.taps[k].slot \in 0 .. output_buffer_length(imp.rate) - 1
      /\ imp.taps[k].entry \in 0 .. SPKR_FILTER_WIDTH - 1
\* The last tap of an edge went to the last slot of the buffer.
C14_Witness ==
    /\ Len(imp.taps) = SPKR_FILTER_QUALITY
    /\ imp.taps[SPKR_FILTER_QUALITY].slot = output_buffer_length(imp.rate) - 1

\* The last call did nothing to the timer but advance it: a render, or a
\* control call that was rejected; Passed is the time it advanced by.
ForwardOnly == (call.op = "Render" /\ ~spkr.hung) \/ Rejected \/ Unhandled
Passed ==
    (IF call.op = "Render" THEN TickLen ELSE spkr.last_index) - pre.last_index
\* The square wave was running before the last call.
Counting3 == ~spkr.hung /\ pre.pit_mode = 3 /\ pre.pit_mode3_counting
PeriodChanged == <<spkr.pit_max, spkr.pit_half>> # <<pre.pit_max, pre.pit_half>>
\* The last call was SetCounter(count, 3), count not below the minimum, and
\* found the square wave counting.
StagedLoad ==
    /\ call.op = "SetCounter" /\ call.b = 3 /\ call.a >= minimum_counter
    /\ ~spkr.hung
    /\ ForwardPIT(pre, spkr.last_index).pit_mode = 3
    /\ ForwardPIT(pre, spkr.last_index).pit_mode3_counting
\* SetCounter(count, 3) on a counting square wave sets the staged period and
\* nothing else.
OnlyStaged ==
    StagedLoad =>
      spkr = Rest([ForwardPIT(pre, spkr.last_index) EXCEPT
                     !.pit_new_max = P(call.a), !.pit_new_half = P(call.a) \div 2])

NextBoundary ==
    IF pre.pit_index >= pre.pit_half THEN pre.pit_max ELSE pre.pit_half
End == pre.last_index + Passed
InTwo(a) == ForwardPIT(Rest(ForwardPIT(pre, a)), End)
InOne == ForwardPIT(pre, End)
\* The edges logged by the two advancements, one after the other.
EdgesInTwo(a) == ForwardPIT(pre, a).emitted \o InTwo(a).emitted
NoIndex(r) == Rest([r EXCEPT !.pit_index = 0])

\* C16 as stated: advancing to a position a and then to b leaves the same
\* timer state and the same logged edges as advancing to b at once.
C16_SplitSameState ==
    ForwardOnly =>
      \A a \in pre.last_index .. End :
        /\ ~ForwardPIT(pre, a).hung /\ ~InTwo(a).hung
        /\ Rest(InTwo(a)) = Rest(InOne)
        /\ EdgesInTwo(a) = InOne.emitted

\* C16, the part that holds: advancing to a and then to b logs the same edges and leaves
\* the same output level, periods, flags and log as advancing to b at once;
\* the index is the same too, except when a one-shot (mode 0 or 1) has ended
\* by a: from then on the index is not advanced, so that it is the elapsed
\* time at the first call that found the count ended.
C16_SplitSameEdges ==
    ForwardOnly =>
      \A a \in pre.last_index .. End :
        /\ ~ForwardPIT(pre, a).hung /\ ~InTwo(a).hung
        /\ NoIndex(InTwo(a)) = NoIndex(InOne)
        /\ EdgesInTwo(a) = InOne.emitted
        /\ InTwo(a).pit_index # InOne.pit_index =>
              /\ pre.pit_mode \in {0, 1}
              /\ pre.pit_index < pre.pit_max
              /\ InTwo(a).pit_index = ForwardPIT(pre, a).pit_index
              /\ InTwo(a).pit_index >= pre.pit_max
              /\ InOne.pit_index = pre.pit_index + Passed
\* An advancement in the one-shot mode 0 logged the rising edge, and would
\* have left another index if made in two steps.
C16_Witness ==
    /\ ForwardOnly /\ pre.pit_mode = 0
    /\ Len(spkr.entries) > Len(pre.entries)
    /\ \E a \in pre.last_index .. End : InTwo(a).pit_index # spkr.pit_index

\* The last call was a trigger: SetType raised the gate from disabled to
\* enabled, and returned.
Trigger ==
    /\ call.op = "SetType" /\ call.a = 1
    /\ ~pre.pit_clock_gate_enabled /\ ~spkr.hung
\* The four effects of a mode-1 trigger.
PulseStarted ==
    /\ spkr.pit_max = pre.pit_mode1_pending_max
    /\ spkr.pit_index = 0
    /\ spkr.pit_output_level = SPKR_NEGATIVE_LEVEL
    /\ ~spkr.pit_mode1_waiting_for_trigger

\* C17 as stated: a trigger while the mode is 1 loads the pending period as
\* the current period, restarts the index, sets the output level low and
\* clears waiting-for-trigger.
C17_TriggerMode1Loads ==
    (Trigger /\ pre.pit_mode = 1) => PulseStarted

\* C17 with the case the code sets apart: a trigger while the mode is 1 and
\* a count has been written since the control word starts the pulse as
\* stated; while the timer still waits for its count the trigger changes
\* nothing of the timer (period, index, level, waiting flags), only the gate
\* and output switches.
C17_TriggerMode1UnlessWaitingForCounter ==
    (Trigger /\ pre.pit_mode = 1) =>
      /\ spkr.pit_mode = 1
      /\ spkr.pit_mode1_pending_max = pre.pit_mode1_pending_max
      /\ spkr.pit_mode1_waiting_for_counter = pre.pit_mode1_waiting_for_counter
      /\ IF pre.pit_mode1_waiting_for_counter
         THEN /\ spkr.pit_max = pre.pit_max
              /\ spkr.pit_index = pre.pit_index
              /\ spkr.pit_output_level = pre.pit_output_level
              /\ spkr.pit_mode1_waiting_for_trigger = pre.pit_mode1_waiting_for_trigger
         ELSE PulseStarted
\* A trigger started a pulse: the period came from the pending one, the
\* output went from high to low and the timer had been waiting for it.
C17_Witness ==
    /\ Trigger /\ pre.pit_mode = 1 /\ ~pre.pit_mode1_waiting_for_counter
    /\ pre.pit_mode1_waiting_for_trigger
    /\ pre.pit_max # pre.pit_mode1_pending_max
    /\ pre.pit_output_level = SPKR_POSITIVE_LEVEL
    /\ PulseStarted
    /\ Len(spkr.entries) > Len(pre.entries)

\* C18: a trigger while the mode is 3 starts the square wave at once with
\* the staged period: the current period is the staged one, the half-period
\* is half of it, the index is 0, the output level is high and the timer is
\* counting, whether or not it was counting before.
C18_TriggerMode3Restarts ==
    (Trigger /\ pre.pit_mode = 3) =>
      /\ spkr.pit_mode = 3
      /\ spkr.pit_mode3_counting
      /\ spkr.pit_new_max = pre.pit_new_max
      /\ spkr.pit_max = pre.pit_new_max
      /\ 2 * spkr.pit_half = pre.pit_new_max
      /\ spkr.pit_index = 0
      /\ spkr.pit_output_level = SPKR_POSITIVE_LEVEL
\* A trigger found the square wave marked as counting, in the middle of a
\* period that was not the staged one, and restarted it.
C18_Witness ==
    /\ Trigger /\ pre.pit_mode = 3 /\ pre.pit_mode3_counting
    /\ pre.pit_max # pre.pit_new_max
    /\ ForwardPIT(pre, spkr.last_index).pit_index # 0
    /\ spkr.pit_max = pre.pit_new_max /\ spkr.pit_index = 0

\* The last call was SetType with the gate disabled, and returned.
GateOff == call.op = "SetType" /\ call.a = 0 /\ ~spkr.hung
\* The square wave of r is stopped.
Stopped(r) == r.pit_mode = 3 /\ ~r.pit_mode3_counting
\* The last call neither triggers nor loads a counter nor writes a control
\* word.
NoRestart == ForwardOnly \/ GateOff
\* The positions forward advancement can go to from here within the tick.
Ahead == spkr.last_index .. TickLen
\* Mode 3 half of C19: a disabled gate stops the square wave with the output
\* high, a stopped square wave emits nothing when advanced, and it stays
\* stopped until a trigger, counter load or control word.
GateOffStops ==
    /\ (GateOff /\ pre.pit_mode = 3) =>
          (Stopped(spkr) /\ spkr.pit_output_level = SPKR_POSITIVE_LEVEL)
    /\ Stopped(spkr) =>
          \A x \in Ahead :
            ForwardPIT(spkr, x) = [spkr EXCEPT !.last_index = x]
    /\ (Stopped(pre) /\ NoRestart) =>
          /\ Stopped(spkr)
          /\ spkr.pit_output_level =
                (IF GateOff THEN SPKR_POSITIVE_LEVEL ELSE pre.pit_output_level)
          /\ ForwardPIT(pre, End).emitted = <<>>
\* Mode 1 is as forward advancement left it.
GateOffKeepsMode1 ==
    (GateOff /\ pre.pit_mode = 1) =>
      LET f == ForwardPIT(pre, spkr.last_index) IN
        /\ spkr.pit_mode = 1
        /\ spkr.pit_max = f.pit_max
        /\ spkr.pit_mode1_pending_max = f.pit_mode1_pending_max
        /\ spkr.pit_index = f.pit_index
        /\ spkr.pit_output_level = f.pit_output_level
        /\ spkr.pit_mode1_waiting_for_counter = f.pit_mode1_waiting_for_counter
        /\ spkr.pit_mode1_waiting_for_trigger = f.pit_mode1_waiting_for_trigger
\* A mode-1 pulse is in progress in r: triggered, the output low, and not
\* yet ended.
PulseInProgress(r) ==
    /\ r.pit_mode = 1
    /\ ~r.pit_mode1_waiting_for_counter /\ ~r.pit_mode1_waiting_for_trigger
    /\ r.pit_output_level = SPKR_NEGATIVE_LEVEL
\* Advancing to x ends the pulse of spkr at its programmed instant, the
\* period after the trigger.
EndsOnTime(x) ==
    LET f == ForwardPIT(spkr, x)
        at == spkr.last_index + (spkr.pit_max - spkr.pit_index)
    IN /\ f.pit_output_level = SPKR_POSITIVE_LEVEL
       /\ f.pit_mode1_waiting_for_trigger
       /\ spkr.pit_output_enabled =>
             f.emitted = <<[index |-> at, output_level |-> SPKR_POSITIVE_LEVEL]>>

\* C19: SetType with the gate disabled stops the square wave of mode 3 with
\* the output forced high, and no forward advancement emits an edge until a
\* trigger or counter load; in mode 1 it leaves period, index, output level
\* and waiting flags alone, and a pulse in progress ends at its programmed
\* instant, the pending period after the trigger.
C19_GateDisabled ==
    /\ GateOffStops
    /\ GateOffKeepsMode1
    /\ (GateOff /\ PulseInProgress(spkr)) =>
          \A x \in Ahead :
            (x > spkr.last_index /\ x - spkr.last_index >= spkr.pit_max - spkr.pit_index)
                => EndsOnTime(x)

\* C19 for pulses of a period above 0: all of the above holds as long as the
\* programmed instant of the pulse lies after the trigger.
C19_GateDisabledCounted ==
    /\ GateOffStops
    /\ GateOffKeepsMode1
    /\ (GateOff /\ PulseInProgress(spkr) /\ spkr.pit_index < spkr.pit_max) =>
          \A x \in Ahead :
            IF x - spkr.last_index >= spkr.pit_max - spkr.pit_index
            THEN EndsOnTime(x)
            ELSE ForwardPIT(spkr, x).emitted = <<>>
\* The gate was disabled in the middle of a pulse that ends within the tick,
\* or while the square wave was counting with its output low.
C19_Witness ==
    /\ GateOff
    /\ \/ /\ PulseInProgress(spkr) /\ spkr.pit_output_enabled
           /\ 0 < spkr.pit_index /\ spkr.pit_index < spkr.pit_max
           /\ spkr.last_index + (spkr.pit_max - spkr.pit_index) <= TickLen
       \/ /\ pre.pit_mode = 3 /\ pre.pit_mode3_counting
           /\ ForwardPIT(pre, spkr.last_index).pit_output_level = SPKR_NEGATIVE_LEVEL
           /\ Stopped(spkr)

\* The edges the last call emitted, and the log after a call that started
\* with log es and emitted them: stored in order while there is room.
Emitted == ReCall.emitted
Stored(es) == SubSeq(es \o Emitted, 1, Min(SPKR_ENTRIES, Len(es) + Len(Emitted)))
\* The level the speaker line shows after the last call.
Line ==
    IF spkr.pit_output_enabled THEN spkr.pit_output_level ELSE SPKR_NEGATIVE_LEVEL

\* C20: every SetType call ends by emitting an edge at the call's position
\* with the level of the line (the internal level if the output is enabled,
\* low if not), unless the last emitted level was that level already; and
\* while the output is disabled no call other than SetType emits an edge.
C20_SetTypeClosingEdge ==
    /\ (call.op = "SetType" /\ ~spkr.hung) =>
          LET f == ForwardPIT(pre, spkr.last_index)
              e == [index |-> spkr.last_index, output_level |-> Line]
          IN /\ spkr.pit_output_enabled = (call.b = 1)
             /\ Emitted = f.emitted \o
                   (IF f.previous_output_level = Line THEN <<>> ELSE <<e>>)
             /\ spkr.previous_output_level = Line
             /\ spkr.entries = Stored(pre.entries)
    /\ (ControlCall /\ call.op # "SetType" /\ ~pre.pit_output_enabled) =>
          (Emitted = <<>> /\ NoEdge)
    /\ (call.op = "Render" /\ ~spkr.hung /\ ~pre.pit_output_enabled) =>
          (ForwardPIT(pre, TickLen).emitted = <<>> /\ NoEdge)
\* SetType switched the output off while the internal level was high: the
\* closing edge is low and was stored.
C20_Witness ==
    /\ call.op = "SetType" /\ call.b = 0 /\ ~spkr.hung
    /\ spkr.pit_output_level = SPKR_POSITIVE_LEVEL
    /\ pre.previous_output_level = SPKR_POSITIVE_LEVEL
    /\ Len(spkr.entries) = Len(pre.entries) + 1
    /\ spkr.entries[Len(spkr.entries)] =
          [index |-> spkr.last_index, output_level |-> SPKR_NEGATIVE_LEVEL]

\* The last call was SetCounter(count, 1), and returned.
Load1 == call.op = "SetCounter" /\ call.b = 1 /\ ~spkr.hung

\* C21: SetCounter(count, 1) stores the period as pending and does nothing
\* else to the timer that forward advancement left: current period, index
\* and output level are unchanged and no edge is emitted; a timer waiting
\* for its counter becomes waiting for a trigger; and while the mode is 1
\* the current period changes only at a trigger, to the pending period.
C21_PendingOnly ==
    /\ Load1 =>
          LET f == ForwardPIT(pre, spkr.last_index) IN
            /\ spkr = Rest([f EXCEPT
                       !.pit_mode = 1,
                       !.pit_mode1_pending_max = P(call.a),
                       !.pit_mode1_waiting_for_counter = FALSE,
                       !.pit_mode1_waiting_for_trigger =
                            (pre.pit_mode1_waiting_for_counter \/ @)])
            /\ Emitted = f.emitted
    /\ (pre.pit_mode = 1 /\ spkr.pit_mode = 1 /\ ~spkr.hung
          /\ spkr.pit_max # pre.pit_max) =>
          (Trigger /\ spkr.pit_max = pre.pit_mode1_pending_max)
\* A new count was written in the middle of a pulse: the pulse keeps its
\* period and the new one is pending.
C21_Witness ==
    /\ Load1 /\ PulseInProgress(pre)
    /\ 0 < spkr.pit_index /\ spkr.pit_index < spkr.pit_max
    /\ spkr.pit_max = pre.pit_max
    /\ spkr.pit_mode1_pending_max # spkr.pit_max

\* The last call was SetCounter(count, 3) with a count not below the
\* minimum, found the square wave not counting, and returned.
Load3 ==
    /\ call.op = "SetCounter" /\ call.b = 3 /\ call.a >= minimum_counter
    /\ ~spkr.hung /\ ~pre.pit_mode3_counting
\* The edge a call emits at its position when it raises the output: it
\* goes to the log if the speaker output is enabled and the last emitted
\* level was not high already.
RaisedEdge(f) ==
    IF f.pit_output_enabled /\ f.previous_output_level # SPKR_POSITIVE_LEVEL
    THEN <<[index |-> spkr.last_index, output_level |-> SPKR_POSITIVE_LEVEL]>>
    ELSE <<>>

\* C22: SetCounter(count, 3) on a square wave that is not counting applies
\* the period at once (current period = new period, half = new period / 2,
\* index 0); with the gate enabled it starts counting with the output high
\* and emits the edge at the call's position, with the gate disabled it
\* does not start counting, leaves the level and emits nothing.
C22_AppliedAtOnce ==
    Load3 =>
      LET f == ForwardPIT(pre, spkr.last_index) IN
        /\ spkr.pit_mode = 3
        /\ spkr.pit_new_max = P(call.a) /\ 2 * spkr.pit_new_half = P(call.a)
        /\ spkr.pit_max = P(call.a) /\ 2 * spkr.pit_half = P(call.a)
        /\ spkr.pit_index = 0
        /\ IF pre.pit_clock_gate_enabled
           THEN /\ spkr.pit_mode3_counting
                /\ spkr.pit_output_level = SPKR_POSITIVE_LEVEL
                /\ Emitted = f.emitted \o RaisedEdge(f)
                /\ spkr.entries = Stored(pre.entries)
           ELSE /\ ~spkr.pit_mode3_counting
                /\ spkr.pit_output_level = f.pit_output_level
                /\ Emitted = f.emitted
\* The counter was loaded with the gate and the output enabled while the
\* output was low in another period: the square wave starts with a stored
\* rising edge.
C22_Witness ==
    /\ Load3 /\ pre.pit_clock_gate_enabled /\ pre.pit_output_enabled
    /\ ForwardPIT(pre, spkr.last_index).pit_output_level = SPKR_NEGATIVE_LEVEL
    /\ ForwardPIT(pre, spkr.last_index).pit_index # 0
    /\ pre.pit_max # spkr.pit_max
    /\ spkr.pit_mode3_counting
    /\ Len(spkr.entries) = Len(pre.entries) + 1
    /\ spkr.entries[Len(spkr.entries)] =
          [index |-> spkr.last_index, output_level |-> SPKR_POSITIVE_LEVEL]

\* The last reprogramming was SetCounter(count, 0) with the output enabled.
OneShot0 ==
    /\ InWindow /\ win.prog.op = "SetCounter" /\ win.prog.b = 0
    /\ spkr.pit_output_enabled
\* The output is low from the command on and forward advancement emits the
\* rising edge at count * ms_per_pit_tick after it, and nothing else.
OneRisingEdge ==
    /\ win.start.pit_output_level = SPKR_NEGATIVE_LEVEL
    /\ win.start.previous_output_level = SPKR_NEGATIVE_LEVEL
    /\ win.since < P(win.prog.a) =>
          (FwdEdges = <<>> /\ spkr.pit_output_level = SPKR_NEGATIVE_LEVEL)
    /\ (win.since >= P(win.prog.a) /\ win.since > 0) =>
          /\ FwdEdges = <<Edge(P(win.prog.a), SPKR_POSITIVE_LEVEL)>>
          /\ spkr.pit_output_level = SPKR_POSITIVE_LEVEL

\* C23: after SetCounter(count, 0) the output is low at once and forward
\* advancement emits exactly one rising edge, at the crossing instant
\* count * ms_per_pit_tick after the command whenever the call that detects
\* it is made, and no edge after it; in mode 1 the crossing also sets
\* waiting-for-trigger.
C23_OneShotCrossing ==
    /\ OneShot0 => OneRisingEdge
    /\ (Mode1Pulse /\ win.since >= win.start.pit_max /\ win.since > 0) =>
          spkr.pit_mode1_waiting_for_trigger

\* C23 for counts above 0.
C23_OneShotCrossingCounted ==
    /\ (OneShot0 /\ win.prog.a > 0) => OneRisingEdge
    /\ (Mode1Pulse /\ win.start.pit_max > 0 /\ win.since >= win.start.pit_max) =>
          spkr.pit_mode1_waiting_for_trigger
\* A one-shot was detected by a call made after its crossing instant: the
\* rising edge is in the log at the crossing instant, before the position of
\* the call.
C23_Witness ==
    /\ OneShot0 /\ win.prog.a > 0
    /\ pre.pit_index < pre.pit_max
    /\ pre.pit_index + Passed > pre.pit_max
    /\ Len(FwdEdges) = 1
    /\ Len(spkr.entries) > 0
    /\ spkr.entries[Len(spkr.entries)].index < spkr.last_index

\* The last reprogramming was SetCounter(count, 2).
RateGen == win.prog.op = "SetCounter" /\ win.prog.b = 2
\* The edges of a rate generator of period p over the time since: rising
\* one timer tick after the start of each period, falling at its end.
RateGenEdges(p, since) ==
    LET rising == IF since >= ms_per_pit_tick
                  THEN (since - ms_per_pit_tick) \div p + 1 ELSE 0
        falling == since \div p
    IN [j \in 1 .. (rising + falling) |->
          IF j % 2 = 1
          THEN Edge(((j - 1) \div 2) * p + ms_per_pit_tick, SPKR_POSITIVE_LEVEL)
          ELSE Edge((j \div 2) * p, SPKR_NEGATIVE_LEVEL)]
\* The line goes low at the command and the edges of the window are those
\* of the rate generator: all that lie before the position reached, and of
\* those at that very position the ones already detected.
LowOneTick ==
    /\ win.start.pit_output_level = SPKR_NEGATIVE_LEVEL
    /\ win.start.previous_output_level = SPKR_NEGATIVE_LEVEL
    /\ LET due == RateGenEdges(P(win.prog.a), win.since)
           before == SelectSeq(due, LAMBDA e : e.at < win.since)
       IN /\ Len(before) <= Len(FwdEdges) /\ Len(FwdEdges) <= Len(due)
          /\ FwdEdges = SubSeq(due, 1, Len(FwdEdges))

\* C24: after SetCounter(count, 2) with the output enabled the output goes
\* low at once, and in every period P = count * ms_per_pit_tick forward
\* advancement emits a rising edge one timer tick after the start of the
\* period and a falling edge at its end, for every count.
C24_RateGenerator ==
    RateGen =>
      /\ ~spkr.hung
      /\ (InWindow /\ spkr.pit_output_enabled /\ P(win.prog.a) > 0) => LowOneTick

\* C24 for counts above 0.
C24_RateGeneratorCounted ==
    (RateGen /\ win.prog.a > 0) =>
      /\ ~spkr.hung
      /\ (InWindow /\ spkr.pit_output_enabled) => LowOneTick
\* A rate generator has run into its second period: rising, falling and
\* rising edge have been emitted.
C24_Witness ==
    /\ RateGen /\ InWindow /\ spkr.pit_output_enabled
    /\ win.prog.a > 0
    /\ win.since >= P(win.prog.a) + ms_per_pit_tick
    /\ Len(FwdEdges) >= 3

\* The last call only advanced a running rate generator or square wave,
\* over a time above 0, with the speaker output enabled and no other period
\* staged.
Advanced ==
    /\ ForwardOnly /\ Passed > 0 /\ pre.pit_output_enabled
    /\ \/ pre.pit_mode = 2
       \/ /\ pre.pit_mode = 3 /\ pre.pit_mode3_counting
          /\ pre.pit_new_max = pre.pit_max /\ pre.pit_new_half = pre.pit_half
\* The levels after the half-period and after the full period.
HalfLevel == IF pre.pit_mode = 2 THEN SPKR_POSITIVE_LEVEL ELSE SPKR_NEGATIVE_LEVEL
FullLevel == IF pre.pit_mode = 2 THEN SPKR_NEGATIVE_LEVEL ELSE SPKR_POSITIVE_LEVEL
\* The advancement of the last call emitted, as its last edge, the edge of
\* the given level at the position it went to, and making the call again
\* at that position emits nothing.
EdgeAtEnd(level) ==
    LET es == ForwardPIT(pre, End).emitted IN
      /\ es # <<>>
      /\ es[Len(es)] = [index |-> End, output_level |-> level]
      /\ spkr.pit_output_level = level
      /\ ForwardPIT([spkr EXCEPT !.last_index = End], End).emitted = <<>>
\* The elapsed time ended exactly on the half-period, or on the period.
OnHalf == pre.pit_index < pre.pit_half /\ pre.pit_index + Passed = pre.pit_half
OnFull == pre.pit_index + Passed = pre.pit_max

\* C25 as stated: when the elapsed time of a forward advancement ends
\* exactly on the half-period or on the period, the edge of that boundary is
\* emitted by the same call at the boundary position, the index is at the
\* start of the next sub-period (the half-period, or 0 after a period), and
\* the call made again emits nothing.
C25_EdgeOnBoundary ==
    Advanced =>
      /\ OnHalf => (EdgeAtEnd(HalfLevel) /\ spkr.pit_index = pre.pit_half)
      /\ OnFull => (EdgeAtEnd(FullLevel) /\ spkr.pit_index = 0)

\* The output level is the one of the sub-period the index is in, and it is
\* the level last emitted.
InPhase ==
    /\ pre.pit_output_level =
          (IF pre.pit_index < pre.pit_half THEN FullLevel ELSE HalfLevel)
    /\ pre.previous_output_level = pre.pit_output_level

\* C25 for sub-periods longer than 0: the same holds of the boundary that
\* ends the sub-period the index is in, when neither sub-period is empty
\* and the output is at the level of its sub-period.
C25_EdgeOnNextBoundary ==
    (Advanced /\ InPhase /\ 0 < pre.pit_half /\ pre.pit_half < pre.pit_max
              /\ pre.pit_index <= pre.pit_max) =>
      /\ OnHalf => (EdgeAtEnd(HalfLevel) /\ spkr.pit_index = pre.pit_half)
      /\ OnFull => (EdgeAtEnd(FullLevel) /\ spkr.pit_index = 0)
\* An advancement ended exactly on the end of a period it had entered in
\* its first half.
C25_Witness ==
    /\ Advanced /\ OnFull /\ pre.pit_index < pre.pit_half
    /\ 0 < pre.pit_index /\ pre.pit_half < pre.pit_max
    /\ EdgeAtEnd(FullLevel) /\ spkr.pit_index = 0
    /\ Len(ForwardPIT(pre, End).emitted) = 2

\* The last call was a render that returned.
Rendered == call.op = "Render" /\ ~spkr.hung
RECURSIVE TapSum(_, _)
\* What the impulses of the edges es, each synthesized once, add to slot j
\* of the accumulation buffer.
TapSum(es, j) ==
    IF es = <<>> THEN 0
    ELSE TapSum(Tail(es), j)
           + add_impulse(Zeros(BufLen), clamp(Head(es).index, 0, TickLen),
                         Head(es).output_level)[j]

\* C26: a render call advances the timer to the tick end, so that the log
\* holds the edges logged before the call followed by those of the
\* advancement; it synthesizes each edge of the log once, and returns with
\* the log empty and last_index = 0.
C26_RenderDrainsLog ==
    Rendered =>
      LET f == ForwardPIT(pre, TickLen)
          fed == [j \in 1 .. BufLen |-> pre.output_buffer[j] + TapSum(f.entries, j)]
      IN /\ Emitted = f.emitted
         /\ f.entries = Stored(pre.entries)
         /\ spkr.output_buffer = Shift(fed, FramesHanded(call.a))
         /\ spkr.entries = <<>> /\ spkr.last_index = 0
         /\ [spkr EXCEPT !.output_buffer = <<>>, !.current_output_level = 0]
              = Rest([f EXCEPT !.entries = <<>>, !.last_index = 0,
                               !.output_buffer = <<>>, !.current_output_level = 0])
\* A render found edges in the log, its advancement to the tick end logged
\* more, and their impulses are in the part of the buffer that is kept.
C26_Witness ==
    /\ Rendered /\ pre.entries # <<>> /\ pre.last_index < TickLen
    /\ Len(ForwardPIT(pre, TickLen).entries) > Len(pre.entries)
    /\ spkr.entries = <<>>
    /\ spkr.output_buffer # Shift(pre.output_buffer, FramesHanded(call.a))

\* The timer r is in mode 1 and waits for its counter or for a trigger.
Waiting(r) ==
    /\ r.pit_mode = 1
    /\ r.pit_mode1_waiting_for_counter \/ r.pit_mode1_waiting_for_trigger
High(r) == r.pit_output_level = SPKR_POSITIVE_LEVEL

\* C27: whenever the mode is 1 and the timer waits for the counter or for
\* a trigger, the internal output level is high.
C27_WaitingIsHigh == Waiting(spkr) => High(spkr)

\* C27 for a timer that stays in mode 1: the control word for mode 1 leaves
\* it waiting with the output high, and a call that finds the mode 1 and
\* leaves it 1 keeps a waiting timer's output high.
C27_WaitingStaysHigh ==
    /\ (call.op = "SetPITControl" /\ call.a = 1 /\ ~spkr.hung) =>
          (Waiting(spkr) /\ High(spkr))
    /\ (pre.pit_mode = 1 /\ spkr.pit_mode = 1 /\ (Waiting(pre) => High(pre))) =>
          (Waiting(spkr) => High(spkr))
\* A counter load made mode 1 the mode of a timer whose output was low.
C27_Witness ==
    /\ Load1 /\ pre.pit_mode # 1
    /\ Waiting(spkr) /\ ~High(spkr)

\* C28: after every call that returns, the level the deduplication compares
\* against is the level of the speaker line (the internal output level if
\* the output is enabled, low if not), also after edges were dropped
\* because the log was full.
C28_DedupLevelIsLine == ~spkr.hung => spkr.previous_output_level = Line
\* An edge was dropped because the log was full, with the output enabled,
\* and the level compared against has followed the line.
C28_Witness ==
    /\ ControlCall /\ Len(pre.entries) = SPKR_ENTRIES
    /\ spkr.entries = pre.entries /\ spkr.pit_output_enabled
    /\ spkr.previous_output_level # pre.previous_output_level
    /\ spkr.previous_output_level = spkr.pit_output_level

\* C29: over the whole run the edges stored in the Edge Log, one render
\* after the other, start with a high edge and alternate in level: no edge is
\* stored right after a stored edge of its own level, also after the log
\* overflowed and was drained.
C29_StoredEdgesAlternate ==
    /\ spkr.stored.first \in {0, SPKR_POSITIVE_LEVEL}
    /\ ~spkr.stored.repeated
\* The log overflowed and was drained, and the first edge stored after the
\* drain has the level of the last edge stored before it.
C29_Witness ==
    /\ ControlCall /\ pre.entries = <<>> /\ Len(spkr.entries) = 1
    /\ ~pre.stored.repeated /\ spkr.stored.repeated
    /\ spkr.entries[1].output_level = pre.stored.last

\* The notifications that set the pending-update flag: a move, a button
\* change, and a wheel turn while the VMware protocol is enabled.
Setting == {"move", "button", "wheel"}
Notified(kinds) == kinds \cap Setting # {}
PortRead == mouse.op.name = "Read"
StatusRead == PortRead /\ mouse.op.magic /\ mouse.op.cx = ABSPOINTER_STATUS

\* C30: the pending-update flag of the VMware mouse interface is set exactly
\* when a move or button notification, or a wheel notification with the
\* protocol enabled, arrived since the last ABSPOINTER_STATUS read with the
\* magic number in EAX; such a read reports 4 if one arrived since the
\* previous one and 0 if not; a port read without the magic number returns 0
\* and leaves every static and register as it was.
C30_PendingUpdate ==
    /\ mouse.dev.updated <=> Notified(mouse.since)
    /\ StatusRead => mouse.op.ret = (IF Notified(mouse.op.had) THEN 4 ELSE 0)
    /\ (PortRead /\ ~mouse.op.magic) => (mouse.op.ret = 0 /\ mouse.op.same)
\* A status read reported 4 and cleared the flag after a wheel turn with the
\* protocol enabled was the only notification since the previous one.
C30_Witness ==
    /\ StatusRead /\ mouse.op.had = {"wheel"}
    /\ mouse.op.ret = 4 /\ ~mouse.dev.updated

====
